---- MODULE Spec2Model ----
(***************************************************************************)
(* Model of streamlit_app.py (fleet dashboard): the pandas pipelines       *)
(* load_and_prepare_data, get_unit_info, calculate_kpis and                *)
(* process_fuel_files as operators over small tables, and the script's     *)
(* rerun loop (tabs 1, 3 and 4 around st.session_state["kpi_data"]) as a   *)
(* state machine.                                                          *)
(*                                                                         *)
(* Tables are sequences of records (row order is kept).  float64 cells are *)
(* records [k, n, d]: k = "fin" is the exact rational n/d (d > 0, lowest   *)
(* terms), k = "inf" is +inf (n = 1) or -inf (n = -1), k = "nan" is NaN.   *)
(* Rounding of finite results is not modelled; the IEEE special values     *)
(* (x/0, 0/0, inf - inf, inf/inf, NaN propagation) are.                    *)
(***************************************************************************)
EXTENDS Integers, Sequences, FiniteSets, TLC

VARIABLES
    pc,              \* which pipeline runs in this behaviour, and how far it got
    df_viajes,       \* calculate_kpis: the filtered trip rows
    df_llenados,     \* calculate_kpis: the filtered fill-up rows
    df_costos,       \* calculate_kpis: the filtered cost rows
    resultado,       \* calculate_kpis: the returned table (empty before the call)
    df_mega_campos,        \* roster workbook, sheet "Campos personalizados"
    df_mega_asignaciones,  \* roster workbook, sheet "Asignaciones"
    df_unit_info,          \* get_unit_info: the returned table, or NoneV
    df_consumo,            \* process_fuel_files: the purchase line items
    df_final,              \* process_fuel_files: the joined rows with Descripcion
    output_df,             \* process_fuel_files: the returned table, or NoneV
    xls,                   \* load_and_prepare_data: the sheets and columns of the workbook
    loaded,                \* load_and_prepare_data: the returned triple
    load_error,            \* load_and_prepare_data: st.error was called
    uploaded_file,         \* script: the Wialon uploader (NoFile or a name of WialonFiles)
    mega_file,             \* script: the roster uploader (NoFile or a name of MegaFiles)
    filters_shown,         \* script: the sidebar filters were rendered by the last run
    selected_unidades,     \* script: the multiselect's value in the last run
    selected_dates,        \* script: the date_input's value in the last run
    kpi_data,              \* st.session_state["kpi_data"] after the last run
    kpi_before,            \* st.session_state["kpi_data"] when the last run began
    kpis_computed,         \* last run: "no" (tab 1 did not call calculate_kpis),
                           \* "empty" or "table" (what kpis was)
    tab3_view,             \* last run: what tab 3 showed
    tab4_view              \* last run: what tab 4 showed

appVars == <<uploaded_file, mega_file, filters_shown, selected_unidades, selected_dates,
             kpi_data, kpi_before, kpis_computed, tab3_view, tab4_view>>

vars == <<pc, df_viajes, df_llenados, df_costos, resultado,
          df_mega_campos, df_mega_asignaciones, df_unit_info,
          df_consumo, df_final, output_df, xls, loaded, load_error, appVars>>

\* A table-valued result that may be Python's None (a function's failure result,
\* an unset session entry): NoneV, or Some(rows).
NoneV == [none |-> TRUE, rows |-> <<>>]

Some(rows) == [none |-> FALSE, rows |-> rows]

\* A missing cell of an object column (pandas NaN/None in text columns).
NA == "<NA>"

\* Text cells are sequences of tokens: a token is a space, a hyphen, a quote, or a
\* run of other characters.  NAT is the missing text cell.
NAT == <<"<NA>">>

\* Timestamps after pd.to_datetime(errors="coerce"): a day number, or NaT.
Day(n) == [nat |-> FALSE, day |-> n]

NaT == [nat |-> TRUE, day |-> 0]

(***************************************************************************)
(* float64 arithmetic                                                      *)
(***************************************************************************)
Abs(i) == IF i < 0 THEN -i ELSE i

Sgn(i) == IF i > 0 THEN 1 ELSE IF i < 0 THEN -1 ELSE 0

RECURSIVE Gcd(_, _)
Gcd(a, b) == IF b = 0 THEN a ELSE Gcd(b, a % b)

\* The finite float n/d (d > 0), in lowest terms.
Fin(n, d) ==
    LET g == Gcd(Abs(n), d)
    IN  [k |-> "fin", n |-> (IF n < 0 THEN -(Abs(n) \div g) ELSE n \div g), d |-> d \div g]

NaN == [k |-> "nan", n |-> 0, d |-> 1]

Inf(s) == [k |-> "inf", n |-> s, d |-> 1]

Zero == Fin(0, 1)

IsNaN(x) == x.k = "nan"

IsFinite(x) == x.k = "fin"

\* x > 0 as float64 compares: False for NaN, True for +inf.
FGt0(x) == x.k # "nan" /\ x.n > 0

FNeg(x) == IF x.k = "nan" THEN NaN ELSE [x EXCEPT !.n = -x.n]

FAdd(x, y) ==
    IF x.k = "nan" \/ y.k = "nan" THEN NaN
    ELSE IF x.k = "inf" /\ y.k = "inf" THEN (IF x.n = y.n THEN x ELSE NaN)
    ELSE IF x.k = "inf" THEN x
    ELSE IF y.k = "inf" THEN y
    ELSE Fin(x.n * y.d + y.n * x.d, x.d * y.d)

FSub(x, y) == FAdd(x, FNeg(y))

FMul(x, y) ==
    IF x.k = "nan" \/ y.k = "nan" THEN NaN
    ELSE IF x.k = "inf" \/ y.k = "inf"
         THEN (IF x.n = 0 \/ y.n = 0 THEN NaN ELSE Inf(Sgn(x.n) * Sgn(y.n)))
    ELSE Fin(x.n * y.n, x.d * y.d)

\* IEEE division (zeros are +0.0): x/0 is +-inf, 0/0 and inf/inf are NaN.
FDiv(x, y) ==
    IF x.k = "nan" \/ y.k = "nan" THEN NaN
    ELSE IF y.k = "inf" THEN (IF x.k = "inf" THEN NaN ELSE Zero)
    ELSE IF y.n = 0
         THEN (IF x.n = 0 THEN NaN ELSE Inf(Sgn(x.n)))
    ELSE IF x.k = "inf" THEN Inf(Sgn(x.n) * Sgn(y.n))
    ELSE Fin(x.n * y.d * Sgn(y.n), x.d * Abs(y.n))

(***************************************************************************)
(* pandas helpers                                                          *)
(***************************************************************************)
RECURSIVE Concat(_)
\* The rows of a sequence of tables, one table after the other.
Concat(tables) ==
    IF tables = <<>> THEN <<>> ELSE Head(tables) \o Concat(Tail(tables))

RECURSIVE SumSkipNa(_, _)
\* Series.sum(): NaN cells are skipped, the sum of no cell is 0.
SumSkipNa(rows, col) ==
    IF rows = <<>> THEN Zero
    ELSE IF IsNaN(Head(rows)[col]) THEN SumSkipNa(Tail(rows), col)
    ELSE FAdd(Head(rows)[col], SumSkipNa(Tail(rows), col))

\* pd.merge(left, right, on=key, how="left"): every left row, in order, once per
\* right row with an equal key (missing keys equal each other), or once with the
\* right columns missing (fill) when no right row matches.
MergeLeft(left, right, key, fill) ==
    Concat([i \in 1..Len(left) |->
        LET Match(r) == r[key] = left[i][key]
            m == SelectSeq(right, Match)
        IN  IF m = <<>> THEN <<left[i] @@ fill>>
            ELSE [j \in 1..Len(m) |-> left[i] @@ m[j]]])

\* The vehicle identifiers (Agrupacion / Unidad), in sort order.
VehicleOrder == <<"V1", "V2">>

Vehicles == {VehicleOrder[i] : i \in DOMAIN VehicleOrder}

\* The keys of df.groupby("Agrupacion"): the identifiers that occur, sorted; rows
\* with a missing key are left out (dropna=True).
GroupKeys(rows) ==
    LET Occurs(v) == \E i \in DOMAIN rows : rows[i].Agrupacion = v
    IN  SelectSeq(VehicleOrder, Occurs)

RowsOf(rows, v) ==
    LET Mine(r) == r.Agrupacion = v IN SelectSeq(rows, Mine)

(***************************************************************************)
(* calculate_kpis                                                          *)
(***************************************************************************)
kpi_viajes(viajes) ==
    LET keys == GroupKeys(viajes)
    IN  [i \in 1..Len(keys) |->
            [Agrupacion |-> keys[i],
             KilometrajeTotal |-> SumSkipNa(RowsOf(viajes, keys[i]), "Kilometraje"),
             KilometrajeUrbano |-> SumSkipNa(RowsOf(viajes, keys[i]), "KilometrajeUrbano")]]

\* llenado_total without the groupby: one row per fill-up record.
llenado_total_ungrouped(llenados) ==
    LET Known(r) == r.Agrupacion \in Vehicles
        rows == SelectSeq(llenados, Known)
    IN  [i \in 1..Len(rows) |->
            [Agrupacion |-> rows[i].Agrupacion, Combustible |-> rows[i].Llenado]]

llenado_total(llenados) ==
    LET keys == GroupKeys(llenados)
    IN  [i \in 1..Len(keys) |->
            [Agrupacion |-> keys[i],
             Combustible |-> SumSkipNa(RowsOf(llenados, keys[i]), "Llenado")]]

costo_total(costos) ==
    LET keys == GroupKeys(costos)
    IN  [i \in 1..Len(keys) |->
            [Agrupacion |-> keys[i],
             Costo |-> SumSkipNa(RowsOf(costos, keys[i]), "Coste")]]

FillNa0(x) == IF IsNaN(x) THEN Zero ELSE x

\* The two left merges and .fillna(0).
MergedTotals(viajes, llenados, costos) ==
    LET m1 == MergeLeft(kpi_viajes(viajes), llenado_total(llenados),
                        "Agrupacion", [Combustible |-> NaN])
        m2 == MergeLeft(m1, costo_total(costos), "Agrupacion", [Costo |-> NaN])
    IN  [i \in 1..Len(m2) |->
            [Agrupacion |-> m2[i].Agrupacion,
             KilometrajeTotal |-> FillNa0(m2[i].KilometrajeTotal),
             KilometrajeUrbano |-> FillNa0(m2[i].KilometrajeUrbano),
             Combustible |-> FillNa0(m2[i].Combustible),
             Costo |-> FillNa0(m2[i].Costo)]]

\* The three ratio columns, as divided (before the final replace).
WithRatios(t) ==
    [i \in 1..Len(t) |->
        t[i] @@ [Rendimiento |-> FDiv(t[i].KilometrajeTotal, t[i].Combustible),
                 CostoPorKm |-> FDiv(t[i].Costo, t[i].KilometrajeTotal),
                 PerfilUrbano |->
                     FMul(FDiv(t[i].KilometrajeUrbano, t[i].KilometrajeTotal), Fin(100, 1))]]

\* t.loc[t[col] > 0, col].mean(): NaN when no row qualifies.
MeanPositive(t, col) ==
    LET Pos(r) == FGt0(r[col])
        sel == SelectSeq(t, Pos)
    IN  IF sel = <<>> THEN NaN ELSE FDiv(SumSkipNa(sel, col), Fin(Len(sel), 1))

avg_rend(t) == MeanPositive(t, "Rendimiento")

avg_urb(t) == MeanPositive(t, "PerfilUrbano")

\* The adjusted efficiency index column.
WithIndex(t) ==
    LET ar == avg_rend(t)
        au == avg_urb(t)
    IN  IF FGt0(ar) /\ FGt0(au)
        THEN [i \in 1..Len(t) |->
                LET perf_dev == FDiv(FSub(t[i].Rendimiento, ar), ar)
                    urb_dev == FDiv(FSub(t[i].PerfilUrbano, au), au)
                IN  t[i] @@ [IEA |-> FMul(FSub(perf_dev, urb_dev), Fin(100, 1))]]
        ELSE [i \in 1..Len(t) |-> t[i] @@ [IEA |-> Zero]]

ReplaceInfCell(x) == IF x.k = "inf" THEN Zero ELSE x

\* resultado.replace([inf, -inf], 0): every numeric cell of the table.
ReplaceInf(t) ==
    [i \in 1..Len(t) |->
        [c \in DOMAIN t[i] |->
            IF c = "Agrupacion" THEN t[i][c] ELSE ReplaceInfCell(t[i][c])]]

calculate_kpis(viajes, llenados, costos) ==
    IF viajes = <<>> THEN <<>>
    ELSE ReplaceInf(WithIndex(WithRatios(MergedTotals(viajes, llenados, costos))))

(***************************************************************************)
(* Roster: the pivoted custom fields and the current assignments           *)
(***************************************************************************)
DriverOrder == <<"D1", "D2">>

Drivers == {DriverOrder[i] : i \in DOMAIN DriverOrder}

\* df.dropna(subset=[col]) / a boolean-mask selection.
DropNa(rows, col) ==
    LET Present(r) == r[col] # NA IN SelectSeq(rows, Present)

\* df_mega_campos.pivot(index="Conductor", columns="Nombre", values="Valor")
\* raises ValueError when an (index, column) pair occurs twice.
PivotRaises(campos) ==
    \E i, j \in DOMAIN campos :
        /\ i < j
        /\ campos[i].Conductor = campos[j].Conductor
        /\ campos[i].Nombre = campos[j].Nombre

\* The cell of the pivot: the one Valor of (conductor, nombre), NaN when none.
PivotCell(campos, conductor, nombre) ==
    LET Hit(r) == r.Conductor = conductor /\ r.Nombre = nombre
        hits == SelectSeq(campos, Hit)
    IN  IF hits = <<>> THEN NAT ELSE hits[1].Valor

\* df_mega_pivot[["Conductor", "TAG", "DEPARTAMENTO"]], one row per driver in
\* index order; NoneV stands for the exception (a duplicate pair, or no "TAG" /
\* "DEPARTAMENTO" column because no row carries that Nombre).
df_mega_pivot(campos_raw) ==
    LET campos == DropNa(campos_raw, "Conductor")
        nombres == {campos[i].Nombre : i \in DOMAIN campos}
        Occurs(c) == \E i \in DOMAIN campos : campos[i].Conductor = c
        index == SelectSeq(DriverOrder, Occurs)
    IN  IF PivotRaises(campos) \/ ~({"TAG", "DEPARTAMENTO"} \subseteq nombres)
        THEN NoneV
        ELSE Some([i \in 1..Len(index) |->
                [Conductor |-> index[i],
                 TAG |-> PivotCell(campos, index[i], "TAG"),
                 DEPARTAMENTO |-> PivotCell(campos, index[i], "DEPARTAMENTO")]])

\* Later with the comparison turned round (an ascending sort).
LaterAscending(a, b) == ~a.nat /\ (b.nat \/ a.day < b.day)

\* a sorts before b under sort_values("Comienzo", ascending=False): later day
\* first, NaT last.
Later(a, b) == ~a.nat /\ (b.nat \/ a.day > b.day)

\* The row orders sort_values("Comienzo", ascending=False) may produce (as index
\* sequences).  The default kind="quicksort" is not a stable sort: rows with equal
\* timestamps may come out in either order.  NaT rows are appended in their
\* original order.
SortOrders(rows) ==
    {p \in Permutations(DOMAIN rows) :
        \A a, b \in DOMAIN rows :
            a < b =>
                /\ ~Later(rows[p[b]].Comienzo, rows[p[a]].Comienzo)
                /\ (rows[p[a]].Comienzo.nat /\ rows[p[b]].Comienzo.nat) => p[a] < p[b]}

Reorder(rows, p) == [k \in DOMAIN rows |-> rows[p[k]]]

RECURSIVE KeepFirst(_, _, _)
\* drop_duplicates(subset=key, keep="first"): a row is kept unless an earlier row
\* has the same key (missing keys count as equal).
KeepFirst(rows, key, seen) ==
    IF rows = <<>> THEN <<>>
    ELSE IF Head(rows)[key] \in seen THEN KeepFirst(Tail(rows), key, seen)
    ELSE <<Head(rows)>> \o KeepFirst(Tail(rows), key, seen \cup {Head(rows)[key]})

\* rename(columns={"Unidad": "UNIDAD_ASIGNADA"}), sort, drop_duplicates.
df_asignacion_vigente(asignaciones, p, key) ==
    LET renamed == [i \in DOMAIN asignaciones |->
                        [UNIDAD_ASIGNADA |-> asignaciones[i].Unidad,
                         Conductor |-> asignaciones[i].Conductor,
                         Comienzo |-> asignaciones[i].Comienzo]]
    IN  KeepFirst(Reorder(renamed, p), key, {})

\* get_unit_info; p is the order the sort produced.
get_unit_info(campos, asignaciones, p) ==
    LET pivot == df_mega_pivot(campos)
    IN  IF pivot.none THEN NoneV
        ELSE LET vigente == df_asignacion_vigente(asignaciones, p, "UNIDAD_ASIGNADA")
                 merged == MergeLeft(vigente, pivot.rows, "Conductor",
                                     [TAG |-> NAT, DEPARTAMENTO |-> NAT])
             IN  Some([i \in DOMAIN merged |->
                    [UNIDAD_ASIGNADA |-> merged[i].UNIDAD_ASIGNADA,
                     Conductor |-> merged[i].Conductor,
                     TAG |-> merged[i].TAG,
                     DEPARTAMENTO |-> merged[i].DEPARTAMENTO]])

(***************************************************************************)
(* process_fuel_files                                                      *)
(***************************************************************************)
\* Series.astype(str): a missing cell becomes the text "nan".
AsStr(t) == IF t = NAT THEN <<"nan">> ELSE t

RECURSIVE LStrip(_)
LStrip(t) == IF t # <<>> /\ Head(t) = " " THEN LStrip(Tail(t)) ELSE t

RECURSIVE RStrip(_)
RStrip(t) ==
    IF t # <<>> /\ t[Len(t)] = " " THEN RStrip(SubSeq(t, 1, Len(t) - 1)) ELSE t

\* str.strip()
Strip(t) == RStrip(LStrip(t))

\* str.replace("'", ""): every quote character is removed.
RemoveQuotes(t) ==
    LET NotQuote(c) == c # "'" IN SelectSeq(t, NotQuote)

\* TAG.astype(str).str.strip().str.replace("'", "")
TAG_LIMPIO(t) == RemoveQuotes(Strip(AsStr(t)))

\* Series.fillna("").astype(str) of a text cell.
FillEmpty(t) == IF t = NAT THEN <<>> ELSE t

\* The same for an identifier cell (UNIDAD_ASIGNADA).
FillEmptyId(u) == IF u = NA THEN <<>> ELSE <<u>>

Separator == <<" ", "-", " ">>

\* A description that leaves out a missing field together with its separator.
DescripcionSkippingMissing(r) ==
    LET parts == <<FillEmpty(r.TAG_x), FillEmptyId(r.UNIDAD_ASIGNADA),
                   FillEmpty(r.DEPARTAMENTO), FillEmpty(r.MODELO), FillEmpty(r.PRODUCTO)>>
        NonEmpty(x) == x # <<>>
        kept == SelectSeq(parts, NonEmpty)
    IN  Concat([i \in DOMAIN kept |->
                    IF i = 1 THEN kept[i] ELSE Separator \o kept[i]])

\* df_final["Descripcion"] of one joined row (lines 265-275).
Descripcion(r) ==
    FillEmpty(r.TAG_x) \o Separator \o FillEmptyId(r.UNIDAD_ASIGNADA) \o Separator
        \o FillEmpty(r.DEPARTAMENTO) \o Separator \o FillEmpty(r.MODELO)
        \o Separator \o FillEmpty(r.PRODUCTO)

\* The joined rows of process_fuel_files (df_final), NoneV when the pivot raises;
\* p is the order the sort of the assignments produced.
JoinedRows(consumo, campos, asignaciones, p) ==
    LET pivot == df_mega_pivot(campos)
    IN  IF pivot.none THEN NoneV
        ELSE LET left == [i \in DOMAIN consumo |->
                            [Compra |-> i,
                             TAG_x |-> consumo[i].TAG,
                             MODELO |-> consumo[i].MODELO,
                             PRODUCTO |-> consumo[i].PRODUCTO,
                             TAG_LIMPIO |-> TAG_LIMPIO(consumo[i].TAG)]]
                 right == [i \in DOMAIN pivot.rows |->
                            [Conductor |-> pivot.rows[i].Conductor,
                             TAG_y |-> pivot.rows[i].TAG,
                             DEPARTAMENTO |-> pivot.rows[i].DEPARTAMENTO,
                             TAG_LIMPIO |-> TAG_LIMPIO(pivot.rows[i].TAG)]]
                 df_consumo_con_conductor ==
                    MergeLeft(left, right, "TAG_LIMPIO",
                              [Conductor |-> NA, TAG_y |-> NAT, DEPARTAMENTO |-> NAT])
                 vigente == df_asignacion_vigente(asignaciones, p, "Conductor")
                 unidades == [i \in DOMAIN vigente |->
                                [UNIDAD_ASIGNADA |-> vigente[i].UNIDAD_ASIGNADA,
                                 Conductor |-> vigente[i].Conductor]]
                 merged == MergeLeft(df_consumo_con_conductor, unidades, "Conductor",
                                     [UNIDAD_ASIGNADA |-> NA])
             IN  Some([i \in DOMAIN merged |->
                        merged[i] @@ [Descripcion |-> Descripcion(merged[i])]])

\* output_df: the purchase's own columns (PRECIO, CANTIDAD, IMPORTE and the
\* formatted FECHA travel together as Compra), Descripcion and UNIDAD.
OutputColumns(final) ==
    IF final.none THEN NoneV
    ELSE Some([i \in DOMAIN final.rows |->
                [Compra |-> final.rows[i].Compra,
                 Descripcion |-> final.rows[i].Descripcion,
                 UNIDAD |-> final.rows[i].UNIDAD_ASIGNADA]])

process_fuel_files(consumo, campos, asignaciones, p) ==
    OutputColumns(JoinedRows(consumo, campos, asignaciones, p))

(***************************************************************************)
(* load_and_prepare_data                                                   *)
(***************************************************************************)
\* A sheet of the workbook: absent, or present with a set of column names.
\* ("No" stands for the row-number column.)
NoSheet == [present |-> FALSE, cols |-> {}]

Sheet(cols) == [present |-> TRUE, cols |-> cols]

\* A returned table: None, or the cleaned frame with the date column it was
\* given ("Comienzo" for trips, "Fecha" taken from fecha for the other two).
NoTable == [present |-> FALSE, fecha |-> ""]

Table(fecha) == [present |-> TRUE, fecha |-> fecha]

\* "Tiempo" if present, else the sheet's second alias if present, else None ("").
FechaCol(cols, alias) ==
    IF "Tiempo" \in cols THEN "Tiempo" ELSE IF alias \in cols THEN alias ELSE ""

ViajesCols == {"No", "Comienzo", "Kilometraje", "Kilometraje urbano", "Kilometraje suburbano"}

\* Each block of the try body raises (KeyError / ValueError) when its sheet or
\* one of the columns it indexes is absent.
ViajesRaises(w) == ~w.Viajes.present \/ ~(ViajesCols \subseteq w.Viajes.cols)

LlenadosRaises(w) ==
    \/ ~w.Llenados.present
    \/ "No" \notin w.Llenados.cols
    \/ FechaCol(w.Llenados.cols, "Hora") = ""
    \/ "Llenado registrado" \notin w.Llenados.cols

CostosRaises(w) ==
    \/ ~w.Costos.present
    \/ "No" \notin w.Costos.cols
    \/ FechaCol(w.Costos.cols, "Hora de registro") = ""
    \/ "Coste" \notin w.Costos.cols

\* A loader that hands back the tables it had finished when a later sheet fails.
load_keeping_finished_tables(w) ==
    IF ViajesRaises(w)
    THEN [tables |-> <<NoTable, NoTable, NoTable>>, error |-> TRUE]
    ELSE IF LlenadosRaises(w)
    THEN [tables |-> <<Table("Comienzo"), NoTable, NoTable>>, error |-> TRUE]
    ELSE IF CostosRaises(w)
    THEN [tables |-> <<Table("Comienzo"), Table(FechaCol(w.Llenados.cols, "Hora")), NoTable>>,
          error |-> TRUE]
    ELSE [tables |-> <<Table("Comienzo"),
                       Table(FechaCol(w.Llenados.cols, "Hora")),
                       Table(FechaCol(w.Costos.cols, "Hora de registro"))>>,
          error |-> FALSE]

\* The try body runs the three blocks in order; any exception lands in the one
\* except clause: st.error, st.warning, return None, None, None.
load_and_prepare_data(w) ==
    IF ViajesRaises(w) \/ LlenadosRaises(w) \/ CostosRaises(w)
    THEN [tables |-> <<NoTable, NoTable, NoTable>>, error |-> TRUE]
    ELSE [tables |-> <<Table("Comienzo"),
                       Table(FechaCol(w.Llenados.cols, "Hora")),
                       Table(FechaCol(w.Costos.cols, "Hora de registro"))>>,
          error |-> FALSE]

(***************************************************************************)
(* The script: tab 1 (dashboard), tab 3 (AI analysis), tab 4 (weekend)     *)
(***************************************************************************)
\* An empty st.file_uploader.
NoFile == "none"

\* Report days are numbered 1, 2; the days of WeekendDays are Saturdays/Sundays
\* (Comienzo.dt.dayofweek in [5, 6]).
WeekendDays == {2}

FullSheets ==
    [Viajes |-> Sheet(ViajesCols),
     Llenados |-> Sheet({"No", "Hora", "Llenado registrado"}),
     Costos |-> Sheet({"No", "Tiempo", "Coste"})]

Trip(v, d, km, urb) ==
    [Agrupacion |-> v, Comienzo |-> Day(d),
     Kilometraje |-> Fin(km, 1), KilometrajeUrbano |-> Fin(urb, 1)]

\* The Wialon workbooks a user may upload: two fleets, and a workbook whose cost
\* sheet lacks its date column.
WialonFiles ==
    [A |-> [sheets |-> FullSheets,
            viajes |-> <<Trip("V1", 1, 2, 1), Trip("V2", 2, 2, 2)>>,
            llenados |-> <<[Agrupacion |-> "V1", Fecha |-> Day(1), Llenado |-> Fin(1, 1)]>>,
            costos |-> <<[Agrupacion |-> "V1", Fecha |-> Day(1), Coste |-> Fin(3, 1)]>>],
     B |-> [sheets |-> FullSheets,
            viajes |-> <<Trip("V2", 1, 2, 1)>>,
            llenados |-> <<[Agrupacion |-> "V2", Fecha |-> Day(1), Llenado |-> Fin(2, 1)]>>,
            costos |-> <<>>],
     Broken |-> [sheets |-> [FullSheets EXCEPT !.Costos = Sheet({"No", "Coste"})],
                 viajes |-> <<Trip("V1", 2, 2, 1)>>,
                 llenados |-> <<>>,
                 costos |-> <<>>]]

\* The roster workbooks: one that resolves V1 to driver D1, and one whose
\* custom-field sheet is empty (get_unit_info returns None).
MegaFiles ==
    [Good |-> [campos |-> <<[Conductor |-> "D1", Nombre |-> "TAG", Valor |-> <<"7">>],
                            [Conductor |-> "D1", Nombre |-> "DEPARTAMENTO", Valor |-> <<"X">>]>>,
               asignaciones |-> <<[Unidad |-> "V1", Conductor |-> "D1", Comienzo |-> Day(1)]>>],
     Bad |-> [campos |-> <<>>,
              asignaciones |-> <<[Unidad |-> "V1", Conductor |-> "D1", Comienzo |-> Day(1)]>>]]

\* sorted(df_viajes["Agrupacion"].unique())
unidades(file) == {file.viajes[i].Agrupacion : i \in DOMAIN file.viajes}

TripDays(file) ==
    {file.viajes[i].Comienzo.day : i \in {j \in DOMAIN file.viajes : ~file.viajes[j].Comienzo.nat}}

min_date(file) == CHOOSE d \in TripDays(file) : \A e \in TripDays(file) : d <= e

max_date(file) == CHOOSE d \in TripDays(file) : \A e \in TripDays(file) : d >= e

\* The values st.sidebar.date_input can return for the range (min, max): a
\* complete range, or the 1-tuple of a range whose end is not picked yet.
DateChoices(file) ==
    LET days == min_date(file)..max_date(file)
    IN  {r \in days \X days : r[1] <= r[2]} \cup {<<a>> : a \in days}

\* df[mask]: the date column within [start_date, end_date] (never true for
\* NaT) and the unit among the selected ones.
Masked(rows, col, sel, dates) ==
    LET Keep(r) ==
            /\ ~r[col].nat
            /\ r[col].day >= dates[1]
            /\ r[col].day <= dates[2]
            /\ r.Agrupacion \in sel
    IN  SelectSeq(rows, Keep)

\* x sorts before y under sort_values(by=IEA, ascending=False): NaN last.
HigherIndex(x, y) == ~IsNaN(x) /\ (IsNaN(y) \/ FGt0(FSub(x, y)))

\* The row orders that sort may produce (not a stable sort; NaN rows are appended
\* in their original order).
IndexOrders(t) ==
    {p \in Permutations(DOMAIN t) :
        \A a, b \in DOMAIN t :
            a < b =>
                /\ ~HigherIndex(t[p[b]].IEA, t[p[a]].IEA)
                /\ (IsNaN(t[p[a]].IEA) /\ IsNaN(t[p[b]].IEA)) => p[a] < p[b]}

\* tabla_final: kpis left-merged with df_unit_info on the unit, "N/A" for a
\* missing Conductor / TAG / DEPARTAMENTO, sorted by the index (order q).
tabla_final(kpis, unit_info, q) ==
    LET right == [i \in DOMAIN unit_info |->
                    [Agrupacion |-> unit_info[i].UNIDAD_ASIGNADA,
                     Conductor |-> unit_info[i].Conductor,
                     TAG |-> unit_info[i].TAG,
                     DEPARTAMENTO |-> unit_info[i].DEPARTAMENTO]]
        merged == MergeLeft(kpis, right, "Agrupacion",
                            [Conductor |-> NA, TAG |-> NAT, DEPARTAMENTO |-> NAT])
        filled == [i \in DOMAIN merged |->
                    [merged[i] EXCEPT
                        !.Conductor = IF @ = NA THEN "N/A" ELSE @,
                        !.TAG = IF @ = NAT THEN <<"N/A">> ELSE @,
                        !.DEPARTAMENTO = IF @ = NAT THEN <<"N/A">> ELSE @]]
    IN  Reorder(filled, q)

\* Tab 1 without the reset of line 444: an empty result leaves the entry alone.
KpiDataKeptWhenEmpty(before, kpis, tabla) ==
    IF kpis # <<>> THEN Some(tabla) ELSE before

\* st.session_state["kpi_data"] after the branch of lines 375-444.
KpiDataAfterDashboard(before, kpis, tabla) ==
    IF kpis # <<>> THEN Some(tabla) ELSE NoneV

\* Tab 3 (lines 497-548): what the button press shows.
Tab3View(pressed, api_key, kpi) ==
    IF ~pressed THEN "idle"
    ELSE IF ~api_key THEN "need_key"
    ELSE IF kpi.none \/ kpi.rows = <<>> THEN "no_data"
    ELSE "analysis"

\* Tab 4 (lines 560-622).  trips_ok: df_viajes is a table; mask_defined: tab 1
\* reached line 354 in this run; filtered: df_viajes[mask_viajes].
Tab4View(both, file, trips_ok, mask_defined, filtered, kpi) ==
    IF ~both THEN "info_upload"
    ELSE IF ~mask_defined /\ ~trips_ok THEN "exception"
    ELSE LET base == IF mask_defined THEN filtered ELSE file.viajes
             IsWeekend(r) == ~r.Comienzo.nat /\ r.Comienzo.day \in WeekendDays
             df_weekend == SelectSeq(base, IsWeekend)
         IN  IF df_weekend = <<>> THEN "no_weekend"
             ELSE IF kpi.none THEN "exception"
             ELSE "summary"

(***************************************************************************)
(* Bounded inputs of calculate_kpis                                        *)
(***************************************************************************)
\* Rows over the three tables handed to one call of calculate_kpis.
MaxKpiRows == 4

\* (Kilometraje, Kilometraje urbano) of a trip: a zero-distance trip, two
\* driven trips, and a trip whose cells failed to_numeric (NaN).
TripMeasures ==
    {<<Zero, Zero>>, <<Fin(2, 1), Fin(1, 1)>>, <<Fin(2, 1), Fin(2, 1)>>, <<NaN, NaN>>}

TripRows ==
    {[Agrupacion |-> v, Kilometraje |-> m[1], KilometrajeUrbano |-> m[2]] :
        v \in Vehicles \cup {NA}, m \in TripMeasures}

FillRows == {[Agrupacion |-> v, Llenado |-> x] : v \in Vehicles, x \in {Zero, Fin(1, 1)}}

CostRows == {[Agrupacion |-> v, Coste |-> x] : v \in Vehicles, x \in {Zero, Fin(3, 1)}}

rosterVars == <<df_mega_campos, df_mega_asignaciones, df_unit_info>>

RosterIdle ==
    /\ df_mega_campos = <<>>
    /\ df_mega_asignaciones = <<>>
    /\ df_unit_info = NoneV

\* The session after the script's first run, both uploaders empty.
AppIdle ==
    /\ uploaded_file = NoFile
    /\ mega_file = NoFile
    /\ filters_shown = FALSE
    /\ selected_unidades = {}
    /\ selected_dates = <<>>
    /\ kpi_data = NoneV
    /\ kpi_before = NoneV
    /\ kpis_computed = "no"
    /\ tab3_view = "idle"
    /\ tab4_view = "info_upload"

loadVars == <<xls, loaded, load_error>>

LoadIdle ==
    /\ xls = [Viajes |-> NoSheet, Llenados |-> NoSheet, Costos |-> NoSheet]
    /\ loaded = <<NoTable, NoTable, NoTable>>
    /\ load_error = FALSE

fuelVars == <<df_consumo, df_final, output_df>>

FuelIdle ==
    /\ df_consumo = <<>>
    /\ df_final = <<>>
    /\ output_df = NoneV

kpiVars == <<df_viajes, df_llenados, df_costos, resultado>>

KpiIdle ==
    /\ df_viajes = <<>>
    /\ df_llenados = <<>>
    /\ df_costos = <<>>
    /\ resultado = <<>>

InitKpi ==
    /\ pc = "kpi_call"
    /\ \E a, b, c \in 0..MaxKpiRows :
        /\ a + b + c <= MaxKpiRows
        /\ df_viajes \in [1..a -> TripRows]
        /\ df_llenados \in [1..b -> FillRows]
        /\ df_costos \in [1..c -> CostRows]
    /\ resultado = <<>>
    /\ RosterIdle
    /\ FuelIdle
    /\ LoadIdle
    /\ AppIdle

\* kpis = calculate_kpis(df_viajes[mask], df_llenados[mask], df_costos[mask])
CalculateKpis ==
    /\ pc = "kpi_call"
    /\ resultado' = calculate_kpis(df_viajes, df_llenados, df_costos)
    /\ pc' = "kpi_done"
    /\ UNCHANGED <<df_viajes, df_llenados, df_costos>>
    /\ UNCHANGED <<rosterVars, fuelVars, loadVars, appVars>>

NextKpi == CalculateKpis

SpecKpi == InitKpi /\ [][NextKpi]_vars

(***************************************************************************)
(* Claims about calculate_kpis (checked under SpecKpi)                     *)
(***************************************************************************)
KpiDone == pc = "kpi_done"

TripVehicles == {df_viajes[j].Agrupacion : j \in DOMAIN df_viajes} \cap Vehicles

RowsFor(t, v) == {i \in DOMAIN t : t[i].Agrupacion = v}

\* The table as it stands when the fleet averages are taken (lines 188-199).
BeforeIndex == WithRatios(MergedTotals(df_viajes, df_llenados, df_costos))

\* C2: the returned KPI table has exactly one row for every vehicle_id that occurs
\* in the trip set, and no row for any other vehicle_id.
C2_OneRowPerTripVehicle ==
    KpiDone =>
        /\ \A i \in DOMAIN resultado : resultado[i].Agrupacion \in TripVehicles
        /\ \A v \in TripVehicles : Cardinality(RowsFor(resultado, v)) = 1

\* C2's case: a vehicle with trips and several fill-up records, and another
\* vehicle with a fill-up record but no trip.
C2_Witness ==
    /\ KpiDone
    /\ \E v \in TripVehicles, w \in Vehicles \ TripVehicles :
        /\ Cardinality(RowsFor(df_llenados, v)) >= 2
        /\ RowsFor(df_llenados, w) # {}
        /\ Cardinality(RowsFor(resultado, v)) = 1

\* C3: in every returned row, fuel_total = 0 gives fuel_economy = 0, and
\* distance_total = 0 gives cost_per_distance = 0 and urban_share_pct = 0; the
\* three ratios are never infinite or undefined.
C3_DivisionSafety ==
    KpiDone =>
        \A i \in DOMAIN resultado :
            /\ resultado[i].Combustible = Zero => resultado[i].Rendimiento = Zero
            /\ resultado[i].KilometrajeTotal = Zero =>
                    /\ resultado[i].CostoPorKm = Zero
                    /\ resultado[i].PerfilUrbano = Zero
            /\ IsFinite(resultado[i].Rendimiento)
            /\ IsFinite(resultado[i].CostoPorKm)
            /\ IsFinite(resultado[i].PerfilUrbano)

\* What the code does guarantee of the ratios: none is infinite, and each is 0
\* when its denominator is 0 and its numerator is not.
RatiosNeverInfinite ==
    KpiDone =>
        \A i \in DOMAIN resultado :
            /\ resultado[i].Rendimiento.k # "inf"
            /\ resultado[i].CostoPorKm.k # "inf"
            /\ resultado[i].PerfilUrbano.k # "inf"
            /\ (resultado[i].Combustible = Zero /\ resultado[i].KilometrajeTotal # Zero)
                    => resultado[i].Rendimiento = Zero

AllIndexZero == \A i \in DOMAIN resultado : resultado[i].IEA = Zero

\* The branch of line 201 as the code takes it: an average that is NaN (no
\* vehicle qualifies) or not positive sends every index to 0.
IndexZeroWhenAverageUndefined ==
    (KpiDone /\ df_viajes # <<>>) =>
        ((~FGt0(avg_rend(BeforeIndex)) \/ ~FGt0(avg_urb(BeforeIndex))) => AllIndexZero)

\* C5: if either fleet average is undefined or non-positive, every index is 0; in
\* particular every index is 0 when all vehicles have fuel_economy = 0.
C5_DegenerateFleet ==
    /\ IndexZeroWhenAverageUndefined
    /\ (KpiDone /\ \A i \in DOMAIN resultado : resultado[i].Rendimiento = Zero)
            => AllIndexZero

\* C6: if every vehicle of the KPI table has the same fuel_economy and the same
\* urban_share_pct, every index is 0.
C6_IndexSymmetry ==
    (KpiDone /\ \A i, j \in DOMAIN resultado :
                    /\ resultado[i].Rendimiento = resultado[j].Rendimiento
                    /\ resultado[i].PerfilUrbano = resultado[j].PerfilUrbano)
        => AllIndexZero

\* C10: every returned adjusted_efficiency_index is a finite number.
C10_IndexFinite ==
    KpiDone => \A i \in DOMAIN resultado : IsFinite(resultado[i].IEA)

(***************************************************************************)
(* Bounded inputs of get_unit_info                                         *)
(***************************************************************************)
\* Rows over the two sheets of the roster workbook.
MaxRosterRows == 4

\* Custom-field rows: a TAG with a value, a TAG with an empty Valor, a
\* DEPARTAMENTO, for each driver; and a row whose Conductor cell is empty.
CampoRows ==
    {[Conductor |-> c, Nombre |-> f[1], Valor |-> f[2]] :
        c \in Drivers,
        f \in {<<"TAG", <<"7">>>>, <<"TAG", NAT>>, <<"DEPARTAMENTO", <<"X">>>>}}
    \cup {[Conductor |-> NA, Nombre |-> "TAG", Valor |-> <<"7">>]}

AsignRows ==
    {[Unidad |-> u, Conductor |-> c, Comienzo |-> t] :
        u \in Vehicles, c \in Drivers \cup {NA}, t \in {Day(1), Day(2), NaT}}

InitRoster ==
    /\ pc = "roster_call"
    /\ \E a, b \in 0..MaxRosterRows :
        /\ a + b <= MaxRosterRows
        /\ df_mega_campos \in [1..a -> CampoRows]
        /\ df_mega_asignaciones \in [1..b -> AsignRows]
    /\ df_unit_info = NoneV
    /\ KpiIdle
    /\ FuelIdle
    /\ LoadIdle
    /\ AppIdle

\* df_unit_info = get_unit_info(mega_gasolineras_file)
GetUnitInfo ==
    /\ pc = "roster_call"
    /\ \E p \in SortOrders(df_mega_asignaciones) :
        df_unit_info' = get_unit_info(df_mega_campos, df_mega_asignaciones, p)
    /\ pc' = "roster_done"
    /\ UNCHANGED <<df_mega_campos, df_mega_asignaciones>>
    /\ UNCHANGED <<kpiVars, fuelVars, loadVars, appVars>>

NextRoster == GetUnitInfo

SpecRoster == InitRoster /\ [][NextRoster]_vars

(***************************************************************************)
(* Claims about get_unit_info (checked under SpecRoster)                   *)
(***************************************************************************)
RosterDone == pc = "roster_done"

HistoryUnits == {df_mega_asignaciones[i].Unidad : i \in DOMAIN df_mega_asignaciones}

\* Assignment a has a start_timestamp and b has none or an earlier one.
StartsAfter(a, b) == ~a.Comienzo.nat /\ (b.Comienzo.nat \/ a.Comienzo.day > b.Comienzo.day)

\* The assignment rows of unit u that no other row of u starts after.
LatestRows(u) ==
    {i \in DOMAIN df_mega_asignaciones :
        /\ df_mega_asignaciones[i].Unidad = u
        /\ \A j \in DOMAIN df_mega_asignaciones :
            df_mega_asignaciones[j].Unidad = u =>
                ~StartsAfter(df_mega_asignaciones[j], df_mega_asignaciones[i])}

\* The driver has a row in the pivoted custom-fields table.
InPivot(c) ==
    \E i \in DOMAIN df_mega_campos : c # NA /\ df_mega_campos[i].Conductor = c

\* One row per unit of the history, carrying a driver of a latest assignment; the
\* row of a driver without pivot entry has TAG and DEPARTAMENTO missing.
OneCurrentRowPerUnit(t) ==
    /\ \A k \in DOMAIN t : t[k].UNIDAD_ASIGNADA \in HistoryUnits
    /\ \A u \in HistoryUnits :
        /\ Cardinality({k \in DOMAIN t : t[k].UNIDAD_ASIGNADA = u}) = 1
        /\ \A k \in DOMAIN t :
            t[k].UNIDAD_ASIGNADA = u =>
                /\ \E i \in LatestRows(u) : df_mega_asignaciones[i].Conductor = t[k].Conductor
                /\ ~InPivot(t[k].Conductor) =>
                        (t[k].TAG = NAT /\ t[k].DEPARTAMENTO = NAT)

FirstLatestRow(u) == CHOOSE i \in LatestRows(u) : \A j \in LatestRows(u) : i <= j

\* C11: when several assignment rows of a vehicle_id share its latest
\* start_timestamp, the row kept as the current assignment is the one that comes
\* first in the original order of the sheet.
C11_FirstTiedRowKept ==
    (RosterDone /\ ~df_unit_info.none) =>
        \A k \in DOMAIN df_unit_info.rows :
            df_unit_info.rows[k].Conductor =
                df_mega_asignaciones[FirstLatestRow(df_unit_info.rows[k].UNIDAD_ASIGNADA)].Conductor

(***************************************************************************)
(* Bounded inputs of process_fuel_files                                    *)
(***************************************************************************)
\* Rows over the purchase table and the two sheets of the roster workbook.
MaxFuelRows == 4

\* Purchase tags: missing, a plain tag, the same tag with the spreadsheet's
\* quote and a trailing blank, and a tag no driver holds.
PurchaseTags == {NAT, <<"7">>, <<"'", "7", " ">>, <<"9">>}

\* (MODELO, PRODUCTO) of a purchase: both missing, or both present with a
\* product name that contains " - ".
PurchaseDetails == {<<NAT, NAT>>, <<<<"M">>, <<"A", " ", "-", " ", "B">>>>}

ConsumoRows ==
    {[TAG |-> t, MODELO |-> d[1], PRODUCTO |-> d[2]] :
        t \in PurchaseTags, d \in PurchaseDetails}

FuelAsignRows ==
    {[Unidad |-> u, Conductor |-> c, Comienzo |-> t] :
        u \in Vehicles, c \in Drivers \cup {NA}, t \in {Day(1), Day(2)}}

InitFuel ==
    /\ pc = "fuel_call"
    /\ \E a, b, c \in 0..MaxFuelRows :
        /\ a + b + c <= MaxFuelRows
        /\ df_consumo \in [1..a -> ConsumoRows]
        /\ df_mega_campos \in [1..b -> CampoRows]
        /\ df_mega_asignaciones \in [1..c -> FuelAsignRows]
    /\ df_final = <<>>
    /\ output_df = NoneV
    /\ df_unit_info = NoneV
    /\ KpiIdle
    /\ LoadIdle
    /\ AppIdle

\* result_df = process_fuel_files(consumo_file_tab2, mega_gasolineras_file_tab2)
ProcessFuelFiles ==
    /\ pc = "fuel_call"
    /\ \E p \in SortOrders(df_mega_asignaciones) :
        LET final == JoinedRows(df_consumo, df_mega_campos, df_mega_asignaciones, p)
        IN  /\ df_final' = final.rows
            /\ output_df' = OutputColumns(final)
    /\ pc' = "fuel_done"
    /\ UNCHANGED <<df_consumo, df_mega_campos, df_mega_asignaciones, df_unit_info>>
    /\ UNCHANGED <<kpiVars, loadVars, appVars>>

NextFuel == ProcessFuelFiles

SpecFuel == InitFuel /\ [][NextFuel]_vars

(***************************************************************************)
(* Claims about process_fuel_files (checked under SpecFuel)                *)
(***************************************************************************)
FuelDone == pc = "fuel_done"

RECURSIVE CountSep(_)
\* The occurrences of " - " in a text, counted as str.count does (left to right,
\* not overlapping).
CountSep(t) ==
    IF Len(t) < 3 THEN 0
    ELSE IF SubSeq(t, 1, 3) = Separator THEN 1 + CountSep(SubSeq(t, 4, Len(t)))
    ELSE CountSep(Tail(t))

HasHyphen(t) == \E i \in DOMAIN t : t[i] = "-"

\* None of the five component fields of the joined row contains a hyphen.
FieldsWithoutHyphen(r) ==
    /\ ~HasHyphen(FillEmpty(r.TAG_x))
    /\ ~HasHyphen(FillEmptyId(r.UNIDAD_ASIGNADA))
    /\ ~HasHyphen(FillEmpty(r.DEPARTAMENTO))
    /\ ~HasHyphen(FillEmpty(r.MODELO))
    /\ ~HasHyphen(FillEmpty(r.PRODUCTO))

\* C7 as stated: every output row's description contains exactly 4 occurrences of
\* " - ", whichever fields are missing and whatever text the present fields hold.
C7_ExactlyFourSeparators ==
    (FuelDone /\ ~output_df.none) =>
        \A k \in DOMAIN output_df.rows : CountSep(output_df.rows[k].Descripcion) = 4

\* C7 amended: every output row's description contains at least 4 occurrences of
\* " - ", and exactly 4, whichever fields are missing, when no present field's
\* text contains a hyphen.
C7_FourSeparatorsWithoutHyphens ==
    (FuelDone /\ ~output_df.none) =>
        \A k \in DOMAIN output_df.rows :
            /\ CountSep(output_df.rows[k].Descripcion) >= 4
            /\ FieldsWithoutHyphen(df_final[k]) =>
                    CountSep(output_df.rows[k].Descripcion) = 4

\* C7's case: an output row whose vehicle, department, model and product are all
\* missing, with exactly 4 separators in its description.
C7_Witness ==
    /\ FuelDone
    /\ ~output_df.none
    /\ \E k \in DOMAIN output_df.rows :
        /\ df_final[k].UNIDAD_ASIGNADA = NA
        /\ df_final[k].DEPARTAMENTO = NAT
        /\ df_final[k].MODELO = NAT
        /\ df_final[k].PRODUCTO = NAT
        /\ df_final[k].TAG_x # NAT
        /\ CountSep(output_df.rows[k].Descripcion) = 4

\* The purchase's tag is missing, or no driver of the pivot holds a tag that
\* normalizes to the purchase's normalized tag.
Unresolved(compra) ==
    \/ compra.TAG = NAT
    \/ \A i \in DOMAIN df_mega_campos :
        (/\ df_mega_campos[i].Conductor # NA
         /\ df_mega_campos[i].Nombre = "TAG"
         /\ df_mega_campos[i].Valor # NAT)
            => TAG_LIMPIO(df_mega_campos[i].Valor) # TAG_LIMPIO(compra.TAG)

\* C8: a purchase whose tag is missing or matches no driver's tag is kept in the
\* output, its UNIDAD missing and the vehicle and department segments of its
\* description empty; it is never attributed to a driver's vehicle or department.
C8_UnresolvedStaysUnattributed ==
    (FuelDone /\ ~output_df.none) =>
        \A i \in DOMAIN df_consumo :
            Unresolved(df_consumo[i]) =>
                /\ \E k \in DOMAIN output_df.rows : output_df.rows[k].Compra = i
                /\ \A k \in DOMAIN output_df.rows :
                    output_df.rows[k].Compra = i =>
                        /\ output_df.rows[k].UNIDAD = NA
                        /\ output_df.rows[k].Descripcion =
                            Descripcion([TAG_x |-> df_consumo[i].TAG,
                                         UNIDAD_ASIGNADA |-> NA,
                                         DEPARTAMENTO |-> NAT,
                                         MODELO |-> df_consumo[i].MODELO,
                                         PRODUCTO |-> df_consumo[i].PRODUCTO])

\* What the code does guarantee of such a purchase: it is kept in the output.
UnresolvedIsKept ==
    (FuelDone /\ ~output_df.none) =>
        \A i \in DOMAIN df_consumo :
            \E k \in DOMAIN output_df.rows : output_df.rows[k].Compra = i

\* C14: every table process_fuel_files returns has exactly as many rows as the
\* purchase table, each purchase row appearing exactly once.
C14_PurchasesOneToOne ==
    (FuelDone /\ ~output_df.none) =>
        /\ Len(output_df.rows) = Len(df_consumo)
        /\ \A i \in DOMAIN df_consumo :
            Cardinality({k \in DOMAIN output_df.rows : output_df.rows[k].Compra = i}) = 1

(***************************************************************************)
(* Inputs of load_and_prepare_data: every workbook over the columns the    *)
(* function looks at                                                       *)
(***************************************************************************)
Sheets(cols) == {NoSheet} \cup {Sheet(c) : c \in SUBSET cols}

InitLoad ==
    /\ pc = "load_call"
    /\ xls \in [Viajes : Sheets(ViajesCols),
                Llenados : Sheets({"No", "Tiempo", "Hora", "Llenado registrado"}),
                Costos : Sheets({"No", "Tiempo", "Hora de registro", "Coste"})]
    /\ loaded = <<NoTable, NoTable, NoTable>>
    /\ load_error = FALSE
    /\ KpiIdle
    /\ RosterIdle
    /\ FuelIdle
    /\ AppIdle

\* df_viajes, df_llenados, df_costos = load_and_prepare_data(uploaded_file)
LoadAndPrepareData ==
    /\ pc = "load_call"
    /\ loaded' = load_and_prepare_data(xls).tables
    /\ load_error' = load_and_prepare_data(xls).error
    /\ pc' = "load_done"
    /\ UNCHANGED <<xls, kpiVars, rosterVars, fuelVars, appVars>>

NextLoad == LoadAndPrepareData

SpecLoad == InitLoad /\ [][NextLoad]_vars

(***************************************************************************)
(* Claims about load_and_prepare_data (checked under SpecLoad)             *)
(***************************************************************************)
LoadDone == pc = "load_done"

\* The workbook has the three sheets, every column the function indexes, and for
\* the fill-up and the cost sheet at least one accepted date-column alias.
WorkbookComplete ==
    /\ xls.Viajes.present /\ xls.Llenados.present /\ xls.Costos.present
    /\ ViajesCols \subseteq xls.Viajes.cols
    /\ {"No", "Llenado registrado"} \subseteq xls.Llenados.cols
    /\ {"Tiempo", "Hora"} \cap xls.Llenados.cols # {}
    /\ {"No", "Coste"} \subseteq xls.Costos.cols
    /\ {"Tiempo", "Hora de registro"} \cap xls.Costos.cols # {}

\* C9: load_and_prepare_data never returns a partial load: with a sheet or a
\* required column (or every date alias) absent it reports an error and returns
\* (None, None, None); otherwise it returns all three tables.
C9_NoPartialLoad ==
    LoadDone =>
        /\ \/ \A i \in 1..3 : loaded[i].present
           \/ \A i \in 1..3 : ~loaded[i].present
        /\ WorkbookComplete => (\A i \in 1..3 : loaded[i].present) /\ ~load_error
        /\ ~WorkbookComplete => (\A i \in 1..3 : ~loaded[i].present) /\ load_error

\* C9's case: trips and fill-ups load (the fill-ups through the alias "Hora"),
\* the cost sheet has neither date alias, and nothing is returned.
C9_Witness ==
    /\ LoadDone
    /\ ~ViajesRaises(xls)
    /\ ~LlenadosRaises(xls)
    /\ "Tiempo" \notin xls.Llenados.cols
    /\ xls.Costos.present
    /\ {"No", "Coste"} \subseteq xls.Costos.cols
    /\ {"Tiempo", "Hora de registro"} \cap xls.Costos.cols = {}
    /\ \A i \in 1..3 : ~loaded[i].present
    /\ load_error

(***************************************************************************)
(* The script's reruns                                                     *)
(***************************************************************************)
\* The widget values a run sees when the user did not touch the filters: the
\* values of the last run if the filters were on screen, the defaults (all
\* units, the full range) otherwise.
CurrentUnits(up) ==
    IF filters_shown /\ up = uploaded_file THEN selected_unidades
    ELSE IF up = NoFile THEN {} ELSE unidades(WialonFiles[up])

CurrentDates(up) ==
    IF filters_shown /\ up = uploaded_file THEN selected_dates
    ELSE IF up = NoFile THEN <<>>
    ELSE <<min_date(WialonFiles[up]), max_date(WialonFiles[up])>>

\* One run of the script, top to bottom, with the uploaders holding up and mega,
\* the filters (if rendered) holding sel and dates, and the analysis button
\* pressed or not.
RunScript(up, mega, sel, dates, pressed, api_key) ==
    /\ pc = "app"
    /\ pc' = "app"
    /\ uploaded_file' = up
    /\ mega_file' = mega
    /\ kpi_before' = kpi_data
    /\ IF up = NoFile \/ mega = NoFile
       THEN /\ kpi_data' = kpi_data
            /\ kpis_computed' = "no"
            /\ filters_shown' = FALSE
            /\ selected_unidades' = {}
            /\ selected_dates' = <<>>
            /\ tab3_view' = Tab3View(pressed, api_key, kpi_data)
            /\ tab4_view' = Tab4View(FALSE, NoFile, FALSE, FALSE, <<>>, kpi_data)
       ELSE LET file == WialonFiles[up]
                roster == MegaFiles[mega]
                trips_ok == load_and_prepare_data(file.sheets).tables[1].present
            IN  \E p \in SortOrders(roster.asignaciones) :
                    LET unit_info == get_unit_info(roster.campos, roster.asignaciones, p)
                        shown == trips_ok /\ ~unit_info.none
                        mask_defined == shown /\ Len(dates) = 2
                        viajes == IF mask_defined
                                  THEN Masked(file.viajes, "Comienzo", sel, dates) ELSE <<>>
                        kpis == IF mask_defined
                                THEN calculate_kpis(viajes,
                                        Masked(file.llenados, "Fecha", sel, dates),
                                        Masked(file.costos, "Fecha", sel, dates))
                                ELSE <<>>
                    IN  \E q \in IndexOrders(kpis) :
                            LET after == IF mask_defined
                                         THEN KpiDataAfterDashboard(kpi_data, kpis,
                                                tabla_final(kpis, unit_info.rows, q))
                                         ELSE kpi_data
                            IN  /\ kpi_data' = after
                                /\ kpis_computed' = IF ~mask_defined THEN "no"
                                                    ELSE IF kpis = <<>> THEN "empty"
                                                    ELSE "table"
                                /\ filters_shown' = shown
                                /\ selected_unidades' = IF shown THEN sel ELSE {}
                                /\ selected_dates' = IF shown THEN dates ELSE <<>>
                                /\ tab3_view' = Tab3View(pressed, api_key, after)
                                /\ tab4_view' = Tab4View(TRUE, file, trips_ok, mask_defined,
                                                         viajes, after)
    /\ UNCHANGED <<kpiVars, rosterVars, fuelVars, loadVars>>

\* The user puts a file into (or clears) the Wialon uploader.
UploadWialon ==
    \E f \in {NoFile} \cup DOMAIN WialonFiles :
        /\ f # uploaded_file
        /\ RunScript(f, mega_file, CurrentUnits(f), CurrentDates(f), FALSE, FALSE)

\* The user puts a file into (or clears) the roster uploader.
UploadMega ==
    \E m \in {NoFile} \cup DOMAIN MegaFiles :
        /\ m # mega_file
        /\ RunScript(uploaded_file, m, CurrentUnits(uploaded_file),
                     CurrentDates(uploaded_file), FALSE, FALSE)

\* The user changes the multiselect.
SelectUnits ==
    /\ filters_shown
    /\ \E sel \in SUBSET unidades(WialonFiles[uploaded_file]) :
        RunScript(uploaded_file, mega_file, sel, selected_dates, FALSE, FALSE)

\* The user changes the date range (after the first click the range has one date).
SelectDates ==
    /\ filters_shown
    /\ \E dates \in DateChoices(WialonFiles[uploaded_file]) :
        RunScript(uploaded_file, mega_file, selected_unidades, dates, FALSE, FALSE)

\* The user presses the analysis button of tab 3, with or without an API key.
PressAnalysis ==
    \E api_key \in BOOLEAN :
        RunScript(uploaded_file, mega_file, CurrentUnits(uploaded_file),
                  CurrentDates(uploaded_file), TRUE, api_key)

InitApp ==
    /\ pc = "app"
    /\ AppIdle
    /\ KpiIdle
    /\ RosterIdle
    /\ FuelIdle
    /\ LoadIdle

NextApp == UploadWialon \/ UploadMega \/ SelectUnits \/ SelectDates \/ PressAnalysis

SpecApp == InitApp /\ [][NextApp]_vars

(***************************************************************************)
(* Claims about the session entry kpi_data                                 *)
(***************************************************************************)
\* C1: a rerun whose KPI table for the current selection is empty leaves
\* st.session_state["kpi_data"] absent, and an analysis triggered after it
\* (in a rerun that computes no new table) reports "no data" or asks for the
\* key; it never analyses the table of an earlier selection.
C1_EmptyResultResets ==
    [][/\ kpis_computed' = "empty" => kpi_data'.none
       /\ (kpis_computed = "empty" /\ kpis_computed' # "table" /\ tab3_view' # "idle")
            => tab3_view' \in {"need_key", "no_data"}]_vars

\* The analysis button pressed, with a key, in a rerun whose table is empty.
C1_Witness == kpis_computed = "empty" /\ kpi_data.none /\ tab3_view = "no_data"

\* C12: at the end of every rerun st.session_state["kpi_data"] is absent or is
\* the table tab 1 computed in that rerun; tab 3 and tab 4 consume a table only
\* in a rerun in which tab 1 computed it.
C12_KpiDataNeverStale ==
    /\ kpis_computed # "table" => kpi_data.none
    /\ tab3_view = "analysis" => kpis_computed = "table"
    /\ tab4_view = "summary" => kpis_computed = "table"

\* C13: tab 4 shows a message or a result in every rerun; it never raises an
\* unhandled exception.
C13_WeekendViewNeverRaises == tab4_view # "exception"

====
